---- MODULE Spec2Model ----
(***************************************************************************)
(* Radio control container: the radio registry (rcc::radio::RadioManager), *)
(* the Silvus radio driver (rcc::adapter::SilvusAdapter), the command      *)
(* orchestrator (rcc::command::Orchestrator) and the audit logger          *)
(* (rcc::audit::AuditLogger), called by several threads.                   *)
(*                                                                         *)
(* Every std::mutex is a variable naming its holder; every method that     *)
(* takes a lock is cut into the steps between which other threads can run. *)
(* std::optional<T> is a set with at most one element, so that an absent   *)
(* value differs from a zero.  Watts are counted in tenths of a watt and   *)
(* frequencies in MHz, so that both are integers.                          *)
(***************************************************************************)
EXTENDS Integers, Sequences, FiniteSets, TLC

\* ------------------------------------------------------------------ bounds

\* Calls started in one run, over all threads.
MaxCalls == 2

\* Records the audit log holds in one run.
MaxAudit == 1

\* Events the telemetry hub publishes in one run.
MaxEvents == 1

\* ------------------------------------------------------- program constants

\* capabilities_.power_range_watts = {0.1, 5.0}, in tenths of a watt.
PowerMin == 1
PowerMax == 50

\* capabilities_.supported_frequencies_mhz = {2412.0, 2437.0, 2462.0}.
SupportedFrequencies == {2412, 2437, 2462}

\* ------------------------------------------------------------------ inputs

\* The caller threads: two, the least that contend for a mutex.  Idle threads
\* are interchangeable, so the next call is always started by the
\* lowest-numbered idle thread.
Threads == {1, 2}
NoThread == 0

\* config.radios: the entries handed to the RadioManager's constructor.
ConfigRadios ==
    << [id |-> "r1", adapter |-> "silvus"],
       [id |-> "r2", adapter |-> "silvus"],
       [id |-> "r3", adapter |-> "other"] >>

\* Every id a caller may name; "r3" is in no registry (unsupported adapter).
Ids == {ConfigRadios[i].id : i \in 1..Len(ConfigRadios)}

\* The ids for which load_from_config builds a SilvusAdapter.
Radios == {ConfigRadios[i].id : i \in {j \in 1..Len(ConfigRadios) :
                                          ConfigRadios[j].adapter = "silvus"}}

\* Watts a caller may ask for: 0.0 (below), 2.0 (inside), 7.0 (above).
WattsInputs == {0, 20, 70}

\* <<channel_index, frequency_mhz>> a caller may ask for: one supported
\* frequency and one unsupported.
ChannelInputs == {<<3, 2437>>, <<1, 2400>>}

\* common::CommandResultCode, and the Unauthorized of command::CommandResult.
ResultCodes == {"Ok", "InvalidRange", "Busy", "Unavailable", "InternalError",
                "Unauthorized"}

\* common::RadioStatus.
RadioStatus == {"Offline", "Discovering", "Ready", "Busy", "Recovering"}

\* common::RadioState as default-constructed.
DefaultState == [status |-> "Offline", channel_index |-> {}, power_watts |-> {}]

\* ------------------------------------------------------------------- state

VARIABLES
    radios_,        \* RadioManager::radios_: id -> descriptor.state (cached)
    active_radio_,  \* RadioManager::active_radio_ (optional<string>)
    mutex_,         \* RadioManager::mutex_: its holder
    state_,         \* SilvusAdapter::state_, per adapter instance
    adapter_mutex,  \* SilvusAdapter::mutex_: its holder, per adapter instance
    auditLog,       \* what AuditLogger::record wrote to the log
    activeRadio_,   \* RadioManager::activeRadio_ of the second draft (a string)
    events,         \* what TelemetryHub::publish handed to the event bus
    auth,           \* an Authenticator, a request put to it, and its answer
    pc,             \* each thread's position
    call,           \* each thread's current call
    meth,           \* the adapter method a thread is executing
    cur,            \* the adapter a thread is calling (its handle)
    todo,           \* RadioManager::start: descriptors the loop has not visited
    snap,           \* the RadioState a thread's state() call copied
    listed,         \* the descriptors a thread's list_radios returned
    ret,            \* the code (or bool, or handle) a thread's call returned
    calls           \* calls started so far

vars == << radios_, active_radio_, mutex_, state_, adapter_mutex, auditLog,
           activeRadio_, events, auth,
           pc, call, meth, cur, todo, snap, listed, ret, calls >>

shared == << radios_, active_radio_, mutex_, state_, adapter_mutex, auditLog,
             activeRadio_, events, auth >>

NoCall == [op |-> "none", id |-> "none", a |-> 0, b |-> 0, code |-> "none"]
NoList == [i \in {} |-> DefaultState]

\* ------------------------------------------------------ SilvusAdapter (pure)

\* SilvusAdapter::SilvusAdapter: the state a new adapter starts in.
AdapterInit == [DefaultState EXCEPT !.status = "Offline"]

\* A connect() that starts from a fresh RadioState.
connect_state_reset(s) == [DefaultState EXCEPT !.status = "Ready"]

\* SilvusAdapter::connect: what it does to state_.
connect_state(s) == [s EXCEPT !.status = "Ready"]

\* SilvusAdapter::connect: the code it returns.
connect_result(s) == "Ok"

\* SilvusAdapter::set_power: the write of the value.
set_power_value(s, watts) == [s EXCEPT !.power_watts = {watts}]

\* SilvusAdapter::set_power: the code it returns.
set_power_result(s, watts) == "Ok"

\* SilvusAdapter::set_channel: the write of the value (frequency_mhz is unused).
set_channel_value(s, channel_index, frequency_mhz) ==
    [s EXCEPT !.channel_index = {channel_index}]

\* SilvusAdapter::set_channel: the code it returns.
set_channel_result(s, channel_index, frequency_mhz) == "Ok"

\* A refresh_state() that leaves state_ alone.
refresh_state_idle(s) == s

\* SilvusAdapter::refresh_state: what it does to state_.
refresh_state_state(s) ==
    IF s.status = "Offline" THEN [s EXCEPT !.status = "Ready"] ELSE s

\* A method that takes no lock.
LockFree_missing(holder) == TRUE

\* std::lock_guard<std::mutex>: the lock is taken only when nobody holds it.
LockFree(holder) == holder = NoThread

\* ------------------------------------------------------ RadioManager (pure)

RECURSIVE LoadFrom(_, _)
\* RadioManager::load_from_config: the descriptor map built from the entries
\* i..Len(cfg); an entry whose adapter type is not "silvus" is skipped.
LoadFrom(cfg, i) ==
    IF i > Len(cfg) THEN [r \in {} |-> DefaultState]
    ELSE LET rest == LoadFrom(cfg, i + 1)
             e == cfg[i]
         IN IF e.adapter = "silvus"
            THEN [r \in DOMAIN rest \cup {e.id} |-> AdapterInit]
            ELSE rest

\* ----------------------------------------------------------- Authenticator

\* auth::AccessLevel.
AccessLevel == {"Telemetry", "Control"}

\* dts::common::security::Scope, the type of AuthResult::scope.
Scope == {"Viewer", "Operator", "Admin"}

\* config::SecurityConfig: whether token_secret is non-empty, and allowed_roles.
SecurityConfigs ==
    [token_secret : BOOLEAN, allowed_roles : SUBSET {"viewer", "controller"}]

\* What authorize reads of an HttpRequest: whether it has a non-empty
\* Authorization header, and what validate says of the token in it (valid,
\* the scope; the subject is "user").
Requests == [header : BOOLEAN, valid : BOOLEAN, scope : Scope]

\* BearerValidator::hasViewerOrHigher, as authorize uses it: every scope is
\* Viewer or higher.
hasViewerOrHigher(info) == info.scope \in {"Viewer", "Operator", "Admin"}

\* BearerValidator::hasOperatorOrHigher, as authorize uses it.
hasOperatorOrHigher(info) == info.scope \in {"Operator", "Admin"}

\* Authenticator::is_role_allowed.
is_role_allowed(allowed_roles_, role) ==
    IF allowed_roles_ = {} THEN TRUE ELSE role \in allowed_roles_

\* Authenticator::Authenticator: the members it leaves.
Authenticator(config) ==
    [validator_ |-> config.token_secret,
     allowed_roles_ |-> config.allowed_roles,
     allow_unauthenticated_viewer_ |->
         IF config.allowed_roles = {} THEN TRUE
         ELSE is_role_allowed(config.allowed_roles, "viewer"),
     allow_unauthenticated_control_ |->
         IF config.allowed_roles = {} THEN ~config.token_secret
         ELSE is_role_allowed(config.allowed_roles, "controller")]

\* auth::AuthResult: allowed, subject and scope (Viewer unless it is given).
AuthResult(allowed, subject, scope) ==
    [allowed |-> allowed, subject |-> subject, scope |-> scope]

\* authorize that looks for the Authorization header first: a request without
\* one is denied whatever the allow flags say, and a valid token is allowed.
authorize_header_first(self, request, level) ==
    IF ~request.header THEN {AuthResult(FALSE, "", "Viewer")}
    ELSE IF ~self.validator_
    THEN [allowed : BOOLEAN, subject : {"anonymous", "user"}, scope : Scope]
    ELSE {AuthResult(request.valid, "user", request.scope)}

\* authorize where a valid token is enough: neither its scope nor the
\* allowed roles are looked at.
authorize_any_token(self, request, level) ==
    IF ~self.validator_
    THEN {AuthResult(TRUE, "anonymous", "Viewer")}
    ELSE {AuthResult(request.header /\ request.valid, "user", request.scope)}

\* Authenticator::authorize: the AuthResults it can return.  With no
\* validator_ and a request that has an Authorization header, validator_-> is
\* applied to an empty optional: the outcome is undefined, any AuthResult.
authorize(self, request, level) ==
    IF ~self.validator_ /\ level = "Telemetry" /\ self.allow_unauthenticated_viewer_
    THEN {AuthResult(TRUE, "anonymous", "Viewer")}
    ELSE IF ~self.validator_ /\ level = "Control" /\ self.allow_unauthenticated_control_
    THEN {AuthResult(TRUE, "anonymous", "Viewer")}
    ELSE IF ~request.header THEN {AuthResult(FALSE, "", "Viewer")}
    ELSE IF ~self.validator_
    THEN [allowed : BOOLEAN, subject : {"anonymous", "user"}, scope : Scope]
    ELSE IF ~request.valid THEN {AuthResult(FALSE, "", "Viewer")}
    ELSE IF ~(IF level = "Telemetry" THEN hasViewerOrHigher(request)
                                     ELSE hasOperatorOrHigher(request))
    THEN {AuthResult(FALSE, "", "Viewer")}
    ELSE IF self.allowed_roles_ # {}
            /\ ~is_role_allowed(self.allowed_roles_,
                                IF level = "Telemetry" THEN "viewer" ELSE "controller")
    THEN {AuthResult(FALSE, "", "Viewer")}
    ELSE {AuthResult(TRUE, "user", request.scope)}

\* An Authenticator built from a security configuration and asked once: the
\* configuration, the Authenticator, the request and level put to authorize,
\* and the AuthResult it returned (none before the call).
AuthInputs ==
    {[config |-> c, self |-> Authenticator(c), request |-> r, level |-> l,
      result |-> {}] : c \in SecurityConfigs, r \in Requests, l \in AccessLevel}

\* No Authenticator is asked anything: the radio registry and the adapters run.
NoAuth ==
    LET c == [token_secret |-> FALSE, allowed_roles |-> {}]
    IN [config |-> c, self |-> Authenticator(c),
        request |-> [header |-> FALSE, valid |-> FALSE, scope |-> "Viewer"],
        level |-> "Telemetry", result |-> {}]

\* ------------------------------------------------------------------- Init

InitRadios ==
    /\ radios_ = LoadFrom(ConfigRadios, 1)
    /\ active_radio_ = {}
    /\ mutex_ = NoThread
    /\ state_ = [r \in Radios |-> AdapterInit]
    /\ adapter_mutex = [r \in Radios |-> NoThread]
    /\ auditLog = << >>
    /\ activeRadio_ = ""
    /\ pc = [t \in Threads |-> "idle"]
    /\ call = [t \in Threads |-> NoCall]
    /\ meth = [t \in Threads |-> "none"]
    /\ cur = [t \in Threads |-> "none"]
    /\ todo = [t \in Threads |-> {}]
    /\ snap = [t \in Threads |-> DefaultState]
    /\ listed = [t \in Threads |-> NoList]
    /\ ret = [t \in Threads |-> "none"]
    /\ calls = 0

Init == InitRadios /\ events = << >> /\ auth = NoAuth

\* ------------------------------------------------------------------- calls

Mk(op, id, a, b, code) == [op |-> op, id |-> id, a |-> a, b |-> b, code |-> code]

\* The public operations of RadioManager.
RadioManagerCalls ==
    {Mk(op, "none", 0, 0, "none") : op \in {"start", "stop", "list_radios", "active_radio"}}
    \cup {Mk(op, id, 0, 0, "none") : op \in {"set_active_radio", "get_state", "get_adapter"},
                                     id \in Ids}

\* The records AuditLogger::record is called with: a radio and a result.
AuditInputs ==
    {[radio_id |-> id, result |-> code] : id \in {"r1"}, code \in {"Ok", "InvalidRange"}}

\* A thread may start a call: it is the lowest-numbered idle thread.
MayCall(t) ==
    /\ pc[t] = "idle"
    /\ \A u \in Threads : u < t => pc[u] # "idle"
    /\ calls < MaxCalls

\* A thread starts a call that takes a lock.
Begin(t, c) ==
    /\ MayCall(t)
    /\ calls' = calls + 1
    /\ call' = [call EXCEPT ![t] = c]
    /\ pc' = [pc EXCEPT ![t] = "rm_enter"]
    /\ ret' = [ret EXCEPT ![t] = "none"]
    /\ UNCHANGED << shared, meth, cur, todo, snap, listed >>

CallRadioManager(t) == \E c \in RadioManagerCalls : Begin(t, c)

\* A call returns to the thread: its stack frame is gone.
Return(t) ==
    /\ pc' = [pc EXCEPT ![t] = "idle"]
    /\ call' = [call EXCEPT ![t] = NoCall]
    /\ meth' = [meth EXCEPT ![t] = "none"]
    /\ cur' = [cur EXCEPT ![t] = "none"]
    /\ todo' = [todo EXCEPT ![t] = {}]
    /\ snap' = [snap EXCEPT ![t] = DefaultState]
    /\ listed' = [listed EXCEPT ![t] = NoList]
    /\ ret' = [ret EXCEPT ![t] = "none"]
    /\ UNCHANGED calls

\* A step inside a call: the thread moves to newpc.
Step(t, newpc) ==
    /\ pc' = [pc EXCEPT ![t] = newpc]
    /\ UNCHANGED << call, calls >>

\* ------------------------------------------------------------ RadioManager

\* RadioManager::start, up to the loop: the lock is taken.
start(t) ==
    /\ pc[t] = "rm_enter" /\ call[t].op = "start"
    /\ LockFree(mutex_)
    /\ mutex_' = t
    /\ todo' = [todo EXCEPT ![t] = DOMAIN radios_]
    /\ Step(t, "start_loop")
    /\ UNCHANGED << radios_, active_radio_, state_, adapter_mutex, auditLog, activeRadio_, events, auth,
                    meth, cur, snap, listed, ret >>

\* RadioManager::start: the loop takes the next descriptor and calls connect(),
\* or ends.
start_loop(t) ==
    /\ pc[t] = "start_loop"
    /\ IF todo[t] = {}
       THEN /\ Step(t, "rm_exit")
            /\ UNCHANGED << todo, cur, meth >>
       ELSE \E id \in todo[t] :
            /\ todo' = [todo EXCEPT ![t] = todo[t] \ {id}]
            /\ cur' = [cur EXCEPT ![t] = id]
            /\ meth' = [meth EXCEPT ![t] = "connect"]
            /\ Step(t, "a_lock")
    /\ UNCHANGED << shared, snap, listed, ret >>

\* RadioManager::start: connect() has returned; on Ok, state() is called.
start_connected(t) ==
    /\ pc[t] = "start_connected"
    /\ IF ret[t] = "Ok"
       THEN /\ meth' = [meth EXCEPT ![t] = "state"]
            /\ Step(t, "a_lock")
       ELSE /\ Step(t, "start_loop")
            /\ UNCHANGED meth
    /\ UNCHANGED << shared, cur, todo, snap, listed, ret >>

\* RadioManager::start: descriptor.state = adapter->state().
start_assign(t) ==
    /\ pc[t] = "start_assign"
    /\ radios_' = [radios_ EXCEPT ![cur[t]] = snap[t]]
    /\ Step(t, "start_loop")
    /\ UNCHANGED << active_radio_, mutex_, state_, adapter_mutex, auditLog, activeRadio_, events, auth,
                    meth, cur, todo, snap, listed, ret >>

\* A stop that clears radios_ and leaves active_radio_ as it is.
stop_keeping_active(t) ==
    /\ pc[t] = "rm_enter" /\ call[t].op = "stop"
    /\ LockFree(mutex_)
    /\ mutex_' = t
    /\ radios_' = [r \in {} |-> DefaultState]
    /\ Step(t, "rm_exit")
    /\ UNCHANGED << active_radio_, state_, adapter_mutex, auditLog, activeRadio_, events, auth,
                    meth, cur, todo, snap, listed, ret >>

\* RadioManager::stop.
stop(t) ==
    /\ pc[t] = "rm_enter" /\ call[t].op = "stop"
    /\ LockFree(mutex_)
    /\ mutex_' = t
    /\ radios_' = [r \in {} |-> DefaultState]
    /\ active_radio_' = {}
    /\ Step(t, "rm_exit")
    /\ UNCHANGED << state_, adapter_mutex, auditLog, activeRadio_, events, auth, meth, cur, todo, snap,
                    listed, ret >>

\* RadioManager::list_radios.
list_radios(t) ==
    /\ pc[t] = "rm_enter" /\ call[t].op = "list_radios"
    /\ LockFree(mutex_)
    /\ mutex_' = t
    /\ listed' = [listed EXCEPT ![t] = radios_]
    /\ Step(t, "rm_exit")
    /\ UNCHANGED << radios_, active_radio_, state_, adapter_mutex, auditLog, activeRadio_, events, auth,
                    meth, cur, todo, snap, ret >>

\* RadioManager::active_radio.
active_radio(t) ==
    /\ pc[t] = "rm_enter" /\ call[t].op = "active_radio"
    /\ LockFree(mutex_)
    /\ mutex_' = t
    /\ ret' = [ret EXCEPT ![t] = IF active_radio_ = {} THEN "nullopt"
                                 ELSE CHOOSE id \in active_radio_ : TRUE]
    /\ Step(t, "rm_exit")
    /\ UNCHANGED << radios_, active_radio_, state_, adapter_mutex, auditLog, activeRadio_, events, auth,
                    meth, cur, todo, snap, listed >>

\* A set_active_radio that forgets the active radio when the id is unknown.
set_active_radio_forgetting(t) ==
    /\ pc[t] = "rm_enter" /\ call[t].op = "set_active_radio"
    /\ LockFree(mutex_)
    /\ mutex_' = t
    /\ IF call[t].id \notin DOMAIN radios_
       THEN /\ ret' = [ret EXCEPT ![t] = "false"]
            /\ active_radio_' = {}
       ELSE /\ active_radio_' = {call[t].id}
            /\ ret' = [ret EXCEPT ![t] = "true"]
    /\ Step(t, "rm_exit")
    /\ UNCHANGED << radios_, state_, adapter_mutex, auditLog, activeRadio_, events, auth,
                    meth, cur, todo, snap, listed >>

\* RadioManager::set_active_radio.
set_active_radio(t) ==
    /\ pc[t] = "rm_enter" /\ call[t].op = "set_active_radio"
    /\ LockFree(mutex_)
    /\ mutex_' = t
    /\ IF call[t].id \notin DOMAIN radios_
       THEN /\ ret' = [ret EXCEPT ![t] = "false"]
            /\ UNCHANGED active_radio_
       ELSE /\ active_radio_' = {call[t].id}
            /\ ret' = [ret EXCEPT ![t] = "true"]
    /\ Step(t, "rm_exit")
    /\ UNCHANGED << radios_, state_, adapter_mutex, auditLog, activeRadio_, events, auth,
                    meth, cur, todo, snap, listed >>

\* RadioManager::get_adapter; the handle returned is cur[t].
get_adapter(t) ==
    /\ pc[t] = "rm_enter" /\ call[t].op = "get_adapter"
    /\ LockFree(mutex_)
    /\ mutex_' = t
    /\ IF call[t].id \notin DOMAIN radios_
       THEN /\ ret' = [ret EXCEPT ![t] = "nullptr"]
            /\ UNCHANGED cur
       ELSE /\ cur' = [cur EXCEPT ![t] = call[t].id]
            /\ ret' = [ret EXCEPT ![t] = "handle"]
    /\ Step(t, "rm_exit")
    /\ UNCHANGED << radios_, active_radio_, state_, adapter_mutex, auditLog, activeRadio_, events, auth,
                    meth, todo, snap, listed >>

\* RadioManager::get_state, up to the call of adapter->state().
get_state(t) ==
    /\ pc[t] = "rm_enter" /\ call[t].op = "get_state"
    /\ LockFree(mutex_)
    /\ mutex_' = t
    /\ IF call[t].id \notin DOMAIN radios_
       THEN /\ snap' = [snap EXCEPT ![t] = DefaultState]
            /\ Step(t, "rm_exit")
            /\ UNCHANGED << cur, meth >>
       ELSE /\ cur' = [cur EXCEPT ![t] = call[t].id]
            /\ meth' = [meth EXCEPT ![t] = "state"]
            /\ Step(t, "a_lock")
            /\ UNCHANGED snap
    /\ UNCHANGED << radios_, active_radio_, state_, adapter_mutex, auditLog, activeRadio_, events, auth,
                    todo, listed, ret >>

\* rm_exit where the mutex stays locked: the call returns and the registry's
\* mutex still has its holder.
rm_exit_holding(t) ==
    /\ pc[t] = "rm_exit"
    /\ Return(t)
    /\ UNCHANGED << radios_, active_radio_, mutex_, state_, adapter_mutex, auditLog,
                    activeRadio_, events, auth >>

\* The end of a RadioManager method: the lock_guard releases mutex_.  A caller
\* that got a handle from get_adapter keeps it for one call of the adapter.  A
\* caller that got descriptors from list_radios keeps them, and calls the
\* adapter of one of them (RadioDescriptor::adapter, a shared_ptr to the
\* adapter the registry uses) once.
rm_exit(t) ==
    /\ pc[t] = "rm_exit"
    /\ mutex_' = NoThread
    /\ IF call[t].op = "get_adapter" /\ ret[t] = "handle"
       THEN /\ pc' = [pc EXCEPT ![t] = "handle"]
            /\ call' = [call EXCEPT ![t] = NoCall]
            /\ ret' = [ret EXCEPT ![t] = "none"]
            /\ UNCHANGED << meth, cur, todo, snap, listed, calls >>
       ELSE IF call[t].op = "list_radios" /\ DOMAIN listed[t] # {}
       THEN /\ pc' = [pc EXCEPT ![t] = "handle"]
            /\ call' = [call EXCEPT ![t] = NoCall]
            /\ \E id \in DOMAIN listed[t] : cur' = [cur EXCEPT ![t] = id]
            /\ UNCHANGED << meth, todo, snap, listed, ret, calls >>
       ELSE Return(t)
    /\ UNCHANGED << radios_, active_radio_, state_, adapter_mutex, auditLog, activeRadio_, events, auth >>

\* ----------------------------------------------------------- SilvusAdapter

\* The std::lock_guard at the top of a SilvusAdapter method m, called by a
\* thread through its handle or by RadioManager::start / get_state.  The lock
\* is taken together with the method's first statement: no other holder of
\* the lock can run between the two.
Enter(t, m) ==
    /\ \/ pc[t] = "handle"
       \/ pc[t] = "a_lock" /\ meth[t] = m
    /\ LockFree(adapter_mutex[cur[t]])
    /\ adapter_mutex' = [adapter_mutex EXCEPT ![cur[t]] = t]
    /\ meth' = [meth EXCEPT ![t] = m]
    /\ UNCHANGED << radios_, active_radio_, mutex_, auditLog, activeRadio_, events, auth, cur, todo,
                    listed, calls >>

\* The call a thread makes through its handle is its current call.
Called(t, m, a, b) ==
    call' = IF pc[t] = "handle" THEN [call EXCEPT ![t] = Mk(m, cur[t], a, b, "none")]
            ELSE call

\* SilvusAdapter::connect, up to its return.
connect(t) ==
    /\ Enter(t, "connect")
    /\ Called(t, "connect", 0, 0)
    /\ state_' = [state_ EXCEPT ![cur[t]] = connect_state(state_[cur[t]])]
    /\ ret' = [ret EXCEPT ![t] = connect_result(state_[cur[t]])]
    /\ pc' = [pc EXCEPT ![t] = "a_unlock"]
    /\ UNCHANGED snap

\* SilvusAdapter::refresh_state, up to its return.
refresh_state(t) ==
    /\ Enter(t, "refresh_state")
    /\ Called(t, "refresh_state", 0, 0)
    /\ state_' = [state_ EXCEPT ![cur[t]] = refresh_state_state(state_[cur[t]])]
    /\ ret' = [ret EXCEPT ![t] = "Ok"]
    /\ pc' = [pc EXCEPT ![t] = "a_unlock"]
    /\ UNCHANGED snap

\* SilvusAdapter::state, up to its return: a copy of state_.
state(t) ==
    /\ Enter(t, "state")
    /\ Called(t, "state", 0, 0)
    /\ snap' = [snap EXCEPT ![t] = state_[cur[t]]]
    /\ pc' = [pc EXCEPT ![t] = "a_unlock"]
    /\ UNCHANGED << state_, ret >>

\* SilvusAdapter::capabilities, up to its return: a copy of capabilities_,
\* which no method writes.
capabilities(t) ==
    /\ Enter(t, "capabilities")
    /\ Called(t, "capabilities", 0, 0)
    /\ pc' = [pc EXCEPT ![t] = "a_unlock"]
    /\ UNCHANGED << state_, snap, ret >>

\* SilvusAdapter::set_power: state_.power_watts = watts.
set_power(t, watts) ==
    /\ Enter(t, "set_power")
    /\ Called(t, "set_power", watts, 0)
    /\ state_' = [state_ EXCEPT ![cur[t]] = set_power_value(state_[cur[t]], watts)]
    /\ pc' = [pc EXCEPT ![t] = "a_busy"]
    /\ UNCHANGED << snap, ret >>

\* SilvusAdapter::set_channel: state_.channel_index = channel_index.
set_channel(t, channel_index, frequency_mhz) ==
    /\ Enter(t, "set_channel")
    /\ Called(t, "set_channel", channel_index, frequency_mhz)
    /\ state_' = [state_ EXCEPT ![cur[t]] =
                     set_channel_value(state_[cur[t]], channel_index, frequency_mhz)]
    /\ pc' = [pc EXCEPT ![t] = "a_busy"]
    /\ UNCHANGED << snap, ret >>

\* set_power, set_channel: state_.status = Busy.
set_busy(t) ==
    /\ pc[t] = "a_busy"
    /\ state_' = [state_ EXCEPT ![cur[t]].status = "Busy"]
    /\ Step(t, "a_ready")
    /\ UNCHANGED << radios_, active_radio_, mutex_, adapter_mutex, auditLog, activeRadio_, events, auth,
                    meth, cur, todo, snap, listed, ret >>

\* set_power, set_channel: the code the method's return statement gives.
result(t) ==
    IF meth[t] = "set_power"
    THEN set_power_result(state_[cur[t]], call[t].a)
    ELSE set_channel_result(state_[cur[t]], call[t].a, call[t].b)

\* set_power, set_channel that return without writing Ready: the status is
\* still Busy when the adapter's mutex is released.
set_ready_skipped(t) ==
    /\ pc[t] = "a_ready"
    /\ ret' = [ret EXCEPT ![t] = result(t)]
    /\ Step(t, "a_unlock")
    /\ UNCHANGED << radios_, active_radio_, mutex_, state_, adapter_mutex, auditLog,
                    activeRadio_, events, auth, meth, cur, todo, snap, listed >>

\* set_power, set_channel: state_.status = Ready, and the code returned.
set_ready(t) ==
    /\ pc[t] = "a_ready"
    /\ state_' = [state_ EXCEPT ![cur[t]].status = "Ready"]
    /\ ret' = [ret EXCEPT ![t] = result(t)]
    /\ Step(t, "a_unlock")
    /\ UNCHANGED << radios_, active_radio_, mutex_, adapter_mutex, auditLog, activeRadio_, events, auth,
                    meth, cur, todo, snap, listed >>

\* The end of a SilvusAdapter method: the lock_guard releases the adapter's
\* mutex and the method returns to its caller (RadioManager::start,
\* RadioManager::get_state, or the thread itself).
adapter_unlock(t) ==
    /\ pc[t] = "a_unlock"
    /\ adapter_mutex' = [adapter_mutex EXCEPT ![cur[t]] = NoThread]
    /\ IF call[t].op \in {"start", "get_state"}
       THEN /\ Step(t, CASE call[t].op = "get_state" -> "rm_exit"
                         [] meth[t] = "connect" -> "start_connected"
                         [] OTHER -> "start_assign")
            /\ UNCHANGED << meth, cur, todo, snap, listed, ret >>
       ELSE Return(t)
    /\ UNCHANGED << radios_, active_radio_, mutex_, state_, auditLog, activeRadio_, events, auth >>

\* ------------------------------------------------------------ Orchestrator

\* A call that takes no lock and calls nothing that does runs in one step:
\* the thread is idle again, and call and ret show what it called and the
\* code that came back.
Atomic(t, c, code) ==
    /\ MayCall(t)
    /\ calls' = calls + 1
    /\ call' = [call EXCEPT ![t] = c]
    /\ ret' = [ret EXCEPT ![t] = code]
    /\ UNCHANGED << pc, meth, cur, todo, snap, listed >>

\* Orchestrator::selectRadio.
selectRadio(t, radioId) ==
    /\ Atomic(t, Mk("selectRadio", radioId, 0, 0, "none"), "Ok")
    /\ UNCHANGED shared

\* Orchestrator::setPower.
setPower(t, radioId, watts) ==
    /\ Atomic(t, Mk("setPower", radioId, watts, 0, "none"), "Ok")
    /\ UNCHANGED shared

\* Orchestrator::setChannel.
setChannel(t, radioId, channelIndex) ==
    /\ Atomic(t, Mk("setChannel", radioId, channelIndex, 0, "none"), "Ok")
    /\ UNCHANGED shared

\* ------------------------------------------- RadioManager (second draft)

\* RadioManager::RadioManager of the second draft: radios_ holds "radio-1".
StubRadios == {"radio-1"}

\* The ids setActiveRadio is called with: one radios_ holds and one it does not.
StubIds == {"radio-1", "r1"}

\* RadioManager::setActiveRadio.
setActiveRadio(t, radioId) ==
    /\ Atomic(t, Mk("setActiveRadio", radioId, 0, 0, "none"),
              IF radioId \in StubRadios THEN "true" ELSE "false")
    /\ activeRadio_' = IF radioId \in StubRadios THEN radioId ELSE activeRadio_
    /\ UNCHANGED << radios_, active_radio_, mutex_, state_, adapter_mutex, auditLog,
                    events, auth >>

\* RadioManager::activeRadio.
activeRadio(t) ==
    /\ Atomic(t, Mk("activeRadio", "none", 0, 0, "none"), activeRadio_)
    /\ UNCHANGED shared

\* ------------------------------------------------------------ TelemetryHub

\* common::to_string(RadioStatus).
to_string(status) ==
    CASE status = "Offline" -> "offline"
      [] status = "Discovering" -> "discovering"
      [] status = "Ready" -> "ready"
      [] status = "Busy" -> "busy"
      [] status = "Recovering" -> "recovering"
      [] OTHER -> "offline"

\* *o of a std::optional that has a value.
Value(o) == CHOOSE v \in o : TRUE

\* A json object with one more key.
With(payload, key, v) == payload @@ (key :> v)

\* The RadioStates publish_radio_state is called with: a default one, one whose
\* fields are both populated with zero, and one with only the channel set.
StateInputs ==
    {DefaultState,
     [status |-> "Ready", channel_index |-> {0}, power_watts |-> {0}],
     [status |-> "Ready", channel_index |-> {3}, power_watts |-> {}]}

\* The payload of publish_radio_state where a field is added when its value is
\* non-zero.
radio_state_payload_truthy(radio_id, st) ==
    LET base == [radioId |-> radio_id, status |-> to_string(st.status)]
        withChannel == IF st.channel_index \notin {{}, {0}}
                       THEN With(base, "channelIndex", Value(st.channel_index))
                       ELSE base
    IN IF st.power_watts \notin {{}, {0}}
       THEN With(withChannel, "powerWatts", Value(st.power_watts))
       ELSE withChannel

\* TelemetryHub::publish_radio_state: the payload it builds.
radio_state_payload(radio_id, st) ==
    LET base == [radioId |-> radio_id, status |-> to_string(st.status)]
        withChannel == IF st.channel_index # {}
                       THEN With(base, "channelIndex", Value(st.channel_index))
                       ELSE base
    IN IF st.power_watts # {}
       THEN With(withChannel, "powerWatts", Value(st.power_watts))
       ELSE withChannel

\* TelemetryHub::publish: the event goes to the event bus.
publish(t, c, tag, payload) ==
    /\ Len(events) < MaxEvents
    /\ Atomic(t, c, "none")
    /\ events' = Append(events, [tag |-> tag, payload |-> payload])
    /\ UNCHANGED << radios_, active_radio_, mutex_, state_, adapter_mutex, auditLog,
                    activeRadio_, auth >>

\* TelemetryHub::publish_radio_st.
publish_radio_state(t, radio_id, st) ==
    publish(t, Mk("publish_radio_state", radio_id, 0, 0, "none"),
            "rcc.radio.state", radio_state_payload(radio_id, st))

\* TelemetryHub::publish_channel_changed.
publish_channel_changed(t, radio_id, channel_index, frequency_mhz) ==
    publish(t, Mk("publish_channel_changed", radio_id, channel_index, frequency_mhz, "none"),
            "rcc.radio.channel",
            [radioId |-> radio_id, channelIndex |-> channel_index,
             frequencyMHz |-> frequency_mhz])

\* TelemetryHub::publish_power_changed.
publish_power_changed(t, radio_id, watts) ==
    publish(t, Mk("publish_power_changed", radio_id, watts, 0, "none"),
            "rcc.radio.power", [radioId |-> radio_id, powerWatts |-> watts])

\* ------------------------------------------------------------- AuditLogger

\* AuditLogger::record: one "[AUDIT] ..." line is written to the log.
record(t, rec) ==
    /\ Len(auditLog) < MaxAudit
    /\ Atomic(t, Mk("record", rec.radio_id, 0, 0, rec.result), "none")
    /\ auditLog' = Append(auditLog, rec)
    /\ UNCHANGED << radios_, active_radio_, mutex_, state_, adapter_mutex,
                    activeRadio_, events, auth >>

\* -------------------------------------------------------------------- Next

Next ==
    \E t \in Threads :
        \/ CallRadioManager(t)
        \/ \E id \in Ids : selectRadio(t, id)
        \/ \E id \in Ids, w \in WattsInputs : setPower(t, id, w)
        \/ \E id \in Ids, c \in ChannelInputs : setChannel(t, id, c[1])
        \/ \E rec \in AuditInputs : record(t, rec)
        \/ \E st \in StateInputs : publish_radio_state(t, "r1", st)
        \/ publish_channel_changed(t, "r1", 3, 2437)
        \/ publish_power_changed(t, "r1", 20)
        \/ \E id \in StubIds : setActiveRadio(t, id)
        \/ activeRadio(t)
        \/ start(t)
        \/ start_loop(t)
        \/ start_connected(t)
        \/ start_assign(t)
        \/ stop(t)
        \/ list_radios(t)
        \/ active_radio(t)
        \/ set_active_radio(t)
        \/ get_adapter(t)
        \/ get_state(t)
        \/ rm_exit(t)
        \/ connect(t)
        \/ refresh_state(t)
        \/ state(t)
        \/ capabilities(t)
        \/ \E w \in WattsInputs : set_power(t, w)
        \/ \E c \in ChannelInputs : set_channel(t, c[1], c[2])
        \/ set_busy(t)
        \/ set_ready(t)
        \/ adapter_unlock(t)

Spec == Init /\ [][Next]_vars

\* ---------------------------------------------------- callers that never stop

\* A caller issues a command to a radio, again and again: it resolves the
\* adapter with get_adapter and calls set_power or set_channel on the handle.
Command(t) ==
    /\ pc[t] = "idle"
    /\ \E id \in Radios : call' = [call EXCEPT ![t] = Mk("get_adapter", id, 0, 0, "none")]
    /\ pc' = [pc EXCEPT ![t] = "rm_enter"]
    /\ UNCHANGED << shared, meth, cur, todo, snap, listed, ret, calls >>

\* The steps of a caller of commands.
CallerStep(t) ==
    \/ Command(t)
    \/ get_adapter(t)
    \/ rm_exit(t)
    \/ set_power(t, 20)
    \/ set_channel(t, 3, 2437)
    \/ set_busy(t)
    \/ set_ready(t)
    \/ adapter_unlock(t)

NextCallers == \E t \in Threads : CallerStep(t)

\* Every caller is scheduled: a step of it that stays possible is taken.  A
\* std::mutex promises no order among the threads that wait for it, so a step
\* that is possible only now and then (a lock_guard of a contended mutex) has
\* no such guarantee.
SpecCallers ==
    Init /\ [][NextCallers]_vars /\ \A t \in Threads : WF_vars(CallerStep(t))

\* --------------------------------------- callers under a fair lock scheduler

\* The calls of the callers below: the RadioManager operations that call an
\* adapter under the registry's lock (start, get_state), those that hand out
\* an adapter (get_adapter, list_radios) and one that only reads the registry.
FairCalls ==
    {Mk(op, "none", 0, 0, "none") : op \in {"start", "list_radios", "active_radio"}}
    \cup {Mk(op, id, 0, 0, "none") : op \in {"get_state", "get_adapter"}, id \in Radios}

\* A caller starts a call of RadioManager, again and again.
Invoke(t) ==
    /\ pc[t] = "idle"
    /\ \E c \in FairCalls : call' = [call EXCEPT ![t] = c]
    /\ pc' = [pc EXCEPT ![t] = "rm_enter"]
    /\ UNCHANGED << shared, meth, cur, todo, snap, listed, ret, calls >>

\* The steps of a call that has started: those of RadioManager, and those of
\* the SilvusAdapter method called through a handle or by RadioManager.
Progress(t) ==
    \/ start(t)
    \/ start_loop(t)
    \/ start_connected(t)
    \/ start_assign(t)
    \/ list_radios(t)
    \/ active_radio(t)
    \/ get_adapter(t)
    \/ get_state(t)
    \/ rm_exit(t)
    \/ connect(t)
    \/ state(t)
    \/ set_power(t, 20)
    \/ set_busy(t)
    \/ set_ready(t)
    \/ adapter_unlock(t)

NextFair == \E t \in Threads : Invoke(t) \/ Progress(t)

\* Fair scheduling: a thread whose next step is possible again and again (a
\* lock_guard of a mutex that is released again and again) takes it.
SpecFair ==
    Init /\ [][NextFair]_vars /\ \A t \in Threads : SF_vars(Progress(t))

\* ------------------------------------------------- asking the Authenticator

\* The call of authorize.
Authorize ==
    /\ auth.result = {}
    /\ \E r \in authorize(auth.self, auth.request, auth.level) :
          auth' = [auth EXCEPT !.result = {r}]
    /\ UNCHANGED << radios_, active_radio_, mutex_, state_, adapter_mutex, auditLog,
                    activeRadio_, events,
                    pc, call, meth, cur, todo, snap, listed, ret, calls >>

InitAuth == InitRadios /\ events = << >> /\ auth \in AuthInputs

NextAuth == Authorize

SpecAuth == InitAuth /\ [][NextAuth]_vars

\* ------------------------------------------------------------------ claims

\* watts lies in capabilities().power_range_watts.
PowerInRange(watts) == PowerMin <= watts /\ watts <= PowerMax

\* Thread t is inside a method of adapter r (it has passed the lock_guard).
InAdapter(t, r) == cur[t] = r /\ pc[t] \in {"a_busy", "a_ready", "a_unlock"}

\* Thread t is inside set_power or set_channel of an adapter.
InSet(t) == pc[t] \in {"a_busy", "a_ready", "a_unlock"}
            /\ call[t].op \in {"set_power", "set_channel"}

\* C1: for a radio the registry knows and watts outside the adapter's
\* power_range_watts, set_power returns InvalidRange and leaves the radio's
\* state as it was: neither the adapter's set_power nor the Orchestrator's
\* setPower writes anything, and both return InvalidRange.
C1_OutOfRangeRejected ==
    [][\A t \in Threads : \A w \in WattsInputs : ~PowerInRange(w) =>
          /\ set_power(t, w) => state_' = state_
          /\ (InSet(t) /\ call[t].op = "set_power" /\ call[t].a = w)
                => /\ state_'[cur[t]] = state_[cur[t]]
                   /\ pc'[t] = "a_unlock" => ret'[t] = "InvalidRange"
          /\ \A id \in DOMAIN radios_ :
                setPower(t, id, w) => ret'[t] = "InvalidRange" /\ state_' = state_
      ]_vars

\* C2: select_radio returns Ok for an id the registry holds and Unavailable
\* for any other id.
C2_SelectRadioResult ==
    [][\A t \in Threads : \A id \in Ids :
          selectRadio(t, id) =>
              ret'[t] = IF id \in DOMAIN radios_ THEN "Ok" ELSE "Unavailable"
      ]_vars

\* C3: every Orchestrator command causes exactly one AuditLogger::record
\* call, whose radio_id is the command's radio and whose result is the code
\* the command returned.
C3_OneAuditRecordPerCommand ==
    [][\A t \in Threads : \A id \in Ids :
          (\/ selectRadio(t, id)
           \/ \E w \in WattsInputs : setPower(t, id, w)
           \/ \E c \in ChannelInputs : setChannel(t, id, c[1]))
          => /\ Len(auditLog') = Len(auditLog) + 1
             /\ auditLog'[Len(auditLog')] = [radio_id |-> id, result |-> ret'[t]]
      ]_vars

\* C4: calls of one adapter never overlap.  At most one thread is inside a
\* method of an adapter, and it holds the adapter's mutex; what a set_power
\* or set_channel has written so far (the value, then Busy, then Ready) is
\* what state_ holds until it returns, so the state a call leaves is its own;
\* and no Busy is left behind by a call that has returned.
C4_AdapterCallsSerialized ==
    \A r \in Radios :
        /\ Cardinality({t \in Threads : InAdapter(t, r)}) <= 1
        /\ \A t \in Threads : InAdapter(t, r) => adapter_mutex[r] = t
        /\ \A t \in Threads : (InSet(t) /\ cur[t] = r) =>
              /\ call[t].op = "set_channel" => state_[r].channel_index = {call[t].a}
              /\ call[t].op = "set_power" => state_[r].power_watts = {call[t].a}
              /\ pc[t] = "a_ready" => state_[r].status = "Busy"
              /\ pc[t] = "a_unlock" => state_[r].status = "Ready" /\ ret[t] = "Ok"
        /\ adapter_mutex[r] = NoThread => state_[r].status # "Busy"

\* C4's case: a thread is inside set_channel of an adapter, between its
\* writes, while another thread holds a handle of the same adapter.
C4_Witness ==
    \E t \in Threads : \E u \in Threads \ {t} :
        /\ pc[t] \in {"a_busy", "a_ready"} /\ call[t].op = "set_channel"
        /\ pc[u] = "handle" /\ cur[u] = cur[t]

\* C5: a command whose adapter call on radio A is in progress never prevents
\* a command on another radio B from resolving its adapter and finishing
\* first.  B's command needs the registry's mutex_: it is free, or its
\* holder can release it without waiting for A's adapter call to return.
C5_OtherRadioNotBlocked ==
    \A ta \in Threads : \A A \in Radios :
        (InAdapter(ta, A) /\ InSet(ta) /\ Radios \ {A} # {})
        => ~ \E h \in Threads : /\ mutex_ = h
                                /\ pc[h] = "a_lock"
                                /\ cur[h] = A

\* C6: when set_channel(id, c, f) on a radio the registry knows returns Ok and
\* no other command on that radio is running, the registry's state for id
\* (what get_state returns: the adapter's state()) has channel_index = c.
C6_SetChannelRoundTrip ==
    [][\A t \in Threads : \A id \in DOMAIN radios_ : \A c \in ChannelInputs :
          (c[2] \in SupportedFrequencies /\ setChannel(t, id, c[1])
             /\ ret'[t] = "Ok" /\ adapter_mutex[id] = NoThread)
          => state_'[id].channel_index = {c[1]}
      ]_vars

\* C7: for a radio the registry knows and watts inside the adapter's
\* power_range_watts, set_power(id, w) returns Ok, and the radio's state then
\* has power_watts = w and status Ready.
C7_SetPowerApplied ==
    [][\A t \in Threads : \A id \in DOMAIN radios_ : \A w \in WattsInputs :
          (PowerInRange(w) /\ setPower(t, id, w) /\ adapter_mutex[id] = NoThread)
          => /\ ret'[t] = "Ok"
             /\ state_'[id].power_watts = {w}
             /\ state_'[id].status = "Ready"
      ]_vars

\* C8: connect() on an adapter whose status is Ready returns Ok and leaves
\* status, power_watts and channel_index as they were.
C8_ConnectIdempotent ==
    [][\A t \in Threads :
          (connect(t) /\ state_[cur[t]].status = "Ready")
          => /\ ret'[t] = "Ok"
             /\ state_'[cur[t]] = state_[cur[t]]
      ]_vars

\* C8's case: connect() has run on an adapter that a set_power or set_channel
\* had configured (and so left Ready) before, and has returned Ok.
C8_Witness ==
    \E t \in Threads :
        /\ pc[t] = "a_unlock" /\ meth[t] = "connect" /\ ret[t] = "Ok"
        /\ state_[cur[t]].status = "Ready"
        /\ \/ state_[cur[t]].power_watts # {}
           \/ state_[cur[t]].channel_index # {}

\* C9: set_channel with a frequency_mhz that is not one of the adapter's
\* supported_frequencies_mhz returns InvalidRange and leaves channel_index
\* as it was.
C9_UnsupportedFrequencyRejected ==
    [][\A t \in Threads : \A c \in ChannelInputs : c[2] \notin SupportedFrequencies =>
          /\ set_channel(t, c[1], c[2])
                => state_'[cur[t]].channel_index = state_[cur[t]].channel_index
          /\ (InSet(t) /\ call[t].op = "set_channel" /\ call[t].b = c[2]
                /\ pc'[t] = "a_unlock")
                => ret'[t] = "InvalidRange"
      ]_vars

\* C10: set_power and set_channel on an adapter whose link is down (status
\* Offline) return Unavailable.  The status is still Offline after the call's
\* first statement, the write of the value; result is the code it returns.
C10_OfflineUnavailable ==
    \A t \in Threads :
        (InSet(t) /\ pc[t] = "a_busy" /\ state_[cur[t]].status = "Offline")
        => result(t) = "Unavailable"

\* C11: a caller that Authenticator::authorize does not allow Control (for
\* whatever security configuration and request) gets Unauthorized from
\* select_radio, set_power and set_channel of the Orchestrator, and the
\* active radio and every radio's state stay as they were.
C11_UnauthorizedRejected ==
    [][\A t \in Threads : \A id \in Ids :
       \A config \in SecurityConfigs : \A request \in Requests :
          (/\ \A r \in authorize(Authenticator(config), request, "Control") : ~r.allowed
           /\ \/ selectRadio(t, id)
              \/ \E w \in WattsInputs : setPower(t, id, w)
              \/ \E c \in ChannelInputs : setChannel(t, id, c[1]))
          => /\ ret'[t] = "Unauthorized"
             /\ active_radio_' = active_radio_
             /\ state_' = state_
             /\ radios_' = radios_
      ]_vars

\* C12: set_active_radio(id) returns true exactly when the registry holds id,
\* and the active radio is then id, which is what active_radio() returns;
\* when the registry does not hold id it returns false and the active radio
\* keeps the value it had, set or unset.  The same holds of setActiveRadio
\* and activeRadio of the second draft.
C12_SetActiveRadio ==
    [][\A t \in Threads :
          /\ set_active_radio(t) =>
                IF call[t].id \in DOMAIN radios_
                THEN ret'[t] = "true" /\ active_radio_' = {call[t].id}
                ELSE ret'[t] = "false" /\ active_radio_' = active_radio_
          /\ active_radio(t) =>
                /\ active_radio_' = active_radio_
                /\ IF active_radio_ = {} THEN ret'[t] = "nullopt"
                                         ELSE ret'[t] \in active_radio_
          /\ \A id \in StubIds : setActiveRadio(t, id) =>
                IF id \in StubRadios
                THEN ret'[t] = "true" /\ activeRadio_' = id
                ELSE ret'[t] = "false" /\ activeRadio_' = activeRadio_
          /\ activeRadio(t) => ret'[t] = activeRadio_ /\ activeRadio_' = activeRadio_
      ]_vars

\* C12's case: set_active_radio has returned false for an id the registry
\* does not hold while an active radio was set.
C12_Witness ==
    \E t \in Threads :
        /\ pc[t] = "rm_exit" /\ call[t].op = "set_active_radio"
        /\ call[t].id \notin DOMAIN radios_
        /\ ret[t] = "false"
        /\ active_radio_ # {}

\* C13: in every reachable state the active radio is unset or is an id the
\* registry's descriptor map holds.  stop empties the map and resets the
\* active radio under one hold of mutex_, so no reader sees one without the
\* other.
C13_ActiveRadioInRegistry ==
    \A id \in active_radio_ : id \in DOMAIN radios_

\* C13's case: an active radio is set and a stop, which will empty the
\* registry, has been called.
C13_Witness ==
    /\ active_radio_ # {}
    /\ \E t \in Threads : pc[t] = "rm_enter" /\ call[t].op = "stop"

\* C14: the set of ids the registry holds is the one load_from_config left:
\* whatever operations have run, radios_ holds those ids and list_radios
\* returns descriptors of exactly those ids.
C14_MembershipFixed ==
    /\ DOMAIN radios_ = DOMAIN LoadFrom(ConfigRadios, 1)
    /\ \A t \in Threads :
          (pc[t] = "rm_exit" /\ call[t].op = "list_radios")
          => DOMAIN listed[t] = DOMAIN LoadFrom(ConfigRadios, 1)

\* C15: the descriptors list_radios returned are a snapshot with no live
\* reference into the registry.  While a thread keeps them, what can be read
\* through them, their adapter fields included (adapter->state() of a
\* descriptor of id is state_[id]), is not changed by any command; and the
\* thread that keeps them cannot change a radio's state through them.
C15_ListRadiosSnapshot ==
    [][\A t \in Threads :
          (listed[t] # NoList /\ listed'[t] = listed[t])
          => /\ \A id \in DOMAIN listed[t] : state_'[id] = state_[id]
             /\ (pc[t] = "handle" /\ pc'[t] # "handle") => state_' = state_
      ]_vars

\* C16: every change of a radio's status, in the adapter's state_ and in the
\* registry's descriptor, is a transition of the status table: Offline to
\* Ready, Ready to Busy, Busy to Ready, Ready or Busy to Recovering,
\* Recovering to Ready, and any status to Offline.
C16_StatusTransitions ==
    [][LET StatusTable ==
               {<<"Offline", "Ready">>, <<"Ready", "Busy">>, <<"Busy", "Ready">>,
                <<"Ready", "Recovering">>, <<"Busy", "Recovering">>,
                <<"Recovering", "Ready">>}
               \cup {<<s, "Offline">> : s \in RadioStatus}
       IN /\ \A r \in Radios :
                state_'[r].status # state_[r].status
                => <<state_[r].status, state_'[r].status>> \in StatusTable
          /\ \A id \in DOMAIN radios_ \cap DOMAIN radios_' :
                radios_'[id].status # radios_[id].status
                => <<radios_[id].status, radios_'[id].status>> \in StatusTable
      ]_vars

\* C18: refresh_state() returns Ok; on an adapter whose status is Offline it
\* leaves the status Ready, on any other status it leaves the status as it
\* was; channel_index and power_watts are as they were in both cases.
C18_RefreshState ==
    [][\A t \in Threads :
          refresh_state(t) =>
              /\ ret'[t] = "Ok"
              /\ state_'[cur[t]].status =
                    IF state_[cur[t]].status = "Offline" THEN "Ready"
                    ELSE state_[cur[t]].status
              /\ state_'[cur[t]].channel_index = state_[cur[t]].channel_index
              /\ state_'[cur[t]].power_watts = state_[cur[t]].power_watts
              /\ \A r \in Radios \ {cur[t]} : state_'[r] = state_[r]
      ]_vars

\* C18's case: refresh_state() has run on an adapter that was Offline and
\* has left it Ready, while another adapter is still Offline.
C18_Witness ==
    \E t \in Threads :
        /\ pc[t] = "a_unlock" /\ meth[t] = "refresh_state" /\ ret[t] = "Ok"
        /\ state_[cur[t]] = [AdapterInit EXCEPT !.status = "Ready"]
        /\ \E r \in Radios \ {cur[t]} : state_[r] = AdapterInit

\* C19: after RadioManager::stop has returned (the registry is empty and no
\* stop is running), every radio's status reads Offline: in what get_state
\* returns, in the adapter any thread still has a handle of, and in the
\* descriptors list_radios returned before.
C19_OfflineAfterStop ==
    (DOMAIN radios_ = {} /\ \A u \in Threads : call[u].op # "stop")
    => \A t \in Threads :
          /\ (pc[t] = "rm_exit" /\ call[t].op = "get_state")
                => snap[t].status = "Offline"
          /\ cur[t] \in Radios => state_[cur[t]].status = "Offline"
          /\ \A id \in DOMAIN listed[t] : listed[t][id].status = "Offline"

\* C20: from the load of the registry until a connect is tried (here: before
\* any call is made), each radio's status is Discovering, in the registry's
\* descriptor and in the adapter.
C20_DiscoveringAfterLoad ==
    calls = 0 =>
        \A id \in DOMAIN radios_ :
            /\ radios_[id].status = "Discovering"
            /\ state_[id].status = "Discovering"

\* C17: every set_power or set_channel call returns to its caller: a caller
\* that has the handle and calls the adapter (it waits for the adapter's
\* mutex) is eventually back with a result, even while other callers keep
\* issuing commands to the same radio.
C17_CommandReturns ==
    \A t \in Threads : (pc[t] = "handle") ~> (pc[t] = "idle")


\* C21: a radio's channel_index is absent until the first set_channel for
\* that radio and its power_watts is absent until the first set_power: only
\* the first statement of set_channel (set_power) changes the field, so
\* connect, refresh_state and start never populate it, and a populated field
\* never becomes absent.  publish_radio_state puts channelIndex (powerWatts)
\* in the payload exactly when the field is populated, a populated zero
\* included, with the field's value.
C21_OptionalFields ==
    [][/\ \A r \in Radios :
            /\ state_[r].channel_index # {} => state_'[r].channel_index # {}
            /\ state_[r].power_watts # {} => state_'[r].power_watts # {}
            /\ state_'[r].channel_index # state_[r].channel_index
                  => \E t \in Threads : \E c \in ChannelInputs :
                        cur[t] = r /\ set_channel(t, c[1], c[2])
            /\ state_'[r].power_watts # state_[r].power_watts
                  => \E t \in Threads : \E w \in WattsInputs :
                        cur[t] = r /\ set_power(t, w)
       /\ \A t \in Threads : \A st \in StateInputs :
            publish_radio_state(t, "r1", st)
               => LET payload == events'[Len(events')].payload
                  IN /\ "channelIndex" \in DOMAIN payload <=> st.channel_index # {}
                     /\ "powerWatts" \in DOMAIN payload <=> st.power_watts # {}
                     /\ st.channel_index # {}
                           => payload["channelIndex"] \in st.channel_index
                     /\ st.power_watts # {}
                           => payload["powerWatts"] \in st.power_watts
      ]_vars

\* C21's case: an adapter whose power_watts was set to zero while its
\* channel_index is still absent, and a published radio state whose payload
\* carries a powerWatts of zero.
C21_Witness ==
    /\ \E r \in Radios : state_[r].power_watts = {0} /\ state_[r].channel_index = {}
    /\ Len(events) = 1
    /\ events[1].tag = "rcc.radio.state"
    /\ "powerWatts" \in DOMAIN events[1].payload
    /\ events[1].payload["powerWatts"] = 0


\* C22: the registry mutex is never held while an adapter method executes: a
\* thread that is inside a method of an adapter (past its lock_guard) does not
\* hold RadioManager::mutex_.
C22_RegistryFreeInAdapter ==
    \A t \in Threads : \A r \in Radios : InAdapter(t, r) => mutex_ # t


\* C23: when a set_power or set_channel returns Ok, the state the registry
\* caches for that radio (RadioDescriptor::state, what list_radios returns)
\* equals the adapter's state: the cache does not lag behind the adapter once
\* the command has returned.
C23_CachedStateCommitted ==
    [][\A t \in Threads :
          (/\ adapter_unlock(t)
           /\ call[t].op \in {"set_power", "set_channel"}
           /\ ret[t] = "Ok"
           /\ cur[t] \in DOMAIN radios_)
          => radios_'[cur[t]] = state_'[cur[t]]
      ]_vars


\* C24: a power-changed (channel-changed) telemetry event is published
\* exactly when the Orchestrator's setPower (setChannel) returned Ok: the
\* command appends the event for its radio to what the hub published if its
\* code is Ok, and publishes nothing otherwise.
C24_EventExactlyOnOk ==
    [][\A t \in Threads : \A id \in Ids :
          /\ \A w \in WattsInputs :
                setPower(t, id, w)
                => IF ret'[t] = "Ok"
                   THEN /\ Len(events') = Len(events) + 1
                        /\ events'[Len(events')].tag = "rcc.radio.power"
                        /\ events'[Len(events')].payload["radioId"] = id
                   ELSE events' = events
          /\ \A c \in ChannelInputs :
                setChannel(t, id, c[1])
                => IF ret'[t] = "Ok"
                   THEN /\ Len(events') = Len(events) + 1
                        /\ events'[Len(events')].tag = "rcc.radio.channel"
                        /\ events'[Len(events')].payload["radioId"] = id
                   ELSE events' = events
      ]_vars


\* authorize's first block grants the level without a credential.
GrantedByFlags(self, level) ==
    ~self.validator_
    /\ \/ level = "Telemetry" /\ self.allow_unauthenticated_viewer_
       \/ level = "Control" /\ self.allow_unauthenticated_control_

\* C25: authorize never validates a token with a validator that is not set:
\* with no token secret configured and allow flags that do not grant the
\* requested level, the request is denied, with or without an Authorization
\* header.
C25_NoValidatorDenied ==
    \A r \in auth.result :
        (~auth.self.validator_ /\ ~GrantedByFlags(auth.self, auth.level))
        => ~r.allowed


\* The role authorize requires of the configuration for a level.
RequiredRole(level) == IF level = "Telemetry" THEN "viewer" ELSE "controller"

\* C26: with a token secret configured, authorize returns allowed == true only
\* if the request has an Authorization header, its token is valid, the token's
\* scope suffices for the level (viewer or higher for Telemetry, operator or
\* higher for Control) and the level's role is allowed by the configuration;
\* the allow-unauthenticated flags grant nothing.
C26_TokenRequired ==
    \A r \in auth.result :
        (auth.config.token_secret /\ r.allowed)
        => /\ auth.request.header
           /\ auth.request.valid
           /\ IF auth.level = "Telemetry" THEN hasViewerOrHigher(auth.request)
                                          ELSE hasOperatorOrHigher(auth.request)
           /\ \/ auth.config.allowed_roles = {}
              \/ RequiredRole(auth.level) \in auth.config.allowed_roles

\* C26's case: with a secret and allowed roles configured, authorize has
\* allowed a Control request.
C26_Witness ==
    /\ auth.config.token_secret
    /\ auth.config.allowed_roles # {}
    /\ auth.level = "Control"
    /\ \E r \in auth.result : r.allowed

\* C27: when authorize is asked for Control and returns allowed == true, the
\* scope it returns permits control (operator or higher): it is never Viewer.
C27_ControlScope ==
    \A r \in auth.result :
        (auth.level = "Control" /\ r.allowed) => r.scope \in {"Operator", "Admin"}

\* C28: with no token secret configured, a request without a credential is
\* granted exactly when allowed_roles is empty or contains the role the level
\* requires, and what is granted has the subject "anonymous"; with no secret
\* and no allowed_roles every Telemetry and every Control request is allowed.
C28_AnonymousGrant ==
    \A r \in auth.result :
        /\ (~auth.config.token_secret /\ ~auth.request.header)
           => /\ r.allowed <=> \/ auth.config.allowed_roles = {}
                               \/ RequiredRole(auth.level) \in auth.config.allowed_roles
              /\ r.allowed => r.subject = "anonymous"
        /\ (~auth.config.token_secret /\ auth.config.allowed_roles = {})
           => r.allowed /\ r.subject = "anonymous"

\* C28's case: with no secret and allowed_roles naming only the controller,
\* authorize has granted a Control request that has no Authorization header.
C28_Witness ==
    /\ ~auth.config.token_secret
    /\ auth.config.allowed_roles = {"controller"}
    /\ ~auth.request.header
    /\ auth.level = "Control"
    /\ \E r \in auth.result : r.allowed /\ r.subject = "anonymous"


\* Thread t waits at the lock_guard of the registry's mutex.
WaitsRegistry(t) == pc[t] = "rm_enter"

\* Thread t waits at the lock_guard of an adapter's mutex.
WaitsAdapter(t) == pc[t] \in {"handle", "a_lock"}

C30_OfflineOrReady ==
    /\ \A t \in Threads : snap[t].status \in {"Offline", "Ready"}
    /\ \A r \in Radios :
          /\ adapter_mutex[r] = NoThread => state_[r].status \in {"Offline", "Ready"}
          /\ state_[r].status \notin {"Discovering", "Recovering"}

\* C30's case: state() has copied the state of an adapter on which a
\* set_power went through Busy before.
C30_Witness ==
    \E t \in Threads :
        /\ pc[t] = "a_unlock" /\ meth[t] = "state"
        /\ snap[t].status = "Ready"
        /\ snap[t].power_watts # {}

====
